---- MODULE Spec2Model ----
(***************************************************************************)
(* Document search prototype: the retrieval orchestrator search_documents, *)
(* the lru_cache'd index loader load_FAISS, the query translator           *)
(* text_to_cypher, the knowledge-graph stub, the lexical scorer and the    *)
(* POST /search handler.                                                   *)
(*                                                                         *)
(* search_documents is a coroutine run by one asyncio event loop: the code *)
(* between two awaits runs without interleaving.  Its only suspension      *)
(* point is `await llm.apredict(prompt)` inside text_to_cypher, so a call  *)
(* is two atomic segments, Run (start .. the await) and Resume (the await  *)
(* .. return).                                                             *)
(***************************************************************************)
EXTENDS Integers, Sequences, FiniteSets, TLC

VARIABLES
    pc,      \* task -> "idle" | "ready" | "awaiting" | "done" | "raised"
    frame,   \* task -> the locals of its search_documents call
    cache,   \* load_FAISS's lru_cache: entries, least recently used first
    builds,  \* document tuple -> number of times the body of load_FAISS ran
    scorer,  \* one call of _lexical_score: its arguments and result
    router   \* the POST /search handler: SEARCH_HISTORY and the last response

vars == <<pc, frame, cache, builds, scorer, router>>

----------------------------------------------------------------------------
(* Bounds of the model *)

NumTasks == 2
MaxDocs == 2
MaxBuilds == 2
NumOthers == 128
MaxQueryLen == 3
MaxContentLen == 4
MaxHistory == 3

(* Program constants *)

\* functools.lru_cache() with no argument keeps maxsize = 128 entries
LruMaxSize == 128
\* Python floats are IEEE binary64: 53 significant bits
MantissaBits == 53
\* SearchRequest.top_k: Field(5, ge=1, le=50)
TopKMin == 1
TopKDefault == 5
TopKMax == 50

----------------------------------------------------------------------------
(* Strings are sequences of characters *)

Chars == {"a", "A", "b", " "}

Strs(n) == UNION {[1..m -> Chars] : m \in 0..n}

IsSpace(ch) == ch = " "

\* str.lower(), one character
LowerChar(ch) == IF ch = "A" THEN "a" ELSE ch

\* str.lower()
Lower(s) == [i \in 1..Len(s) |-> LowerChar(s[i])]

RECURSIVE LStrip(_)
LStrip(s) == IF s # <<>> /\ IsSpace(Head(s)) THEN LStrip(Tail(s)) ELSE s

RECURSIVE RStrip(_)
RStrip(s) ==
    IF s # <<>> /\ IsSpace(s[Len(s)]) THEN RStrip(SubSeq(s, 1, Len(s) - 1)) ELSE s

\* str.strip()
Strip(s) == RStrip(LStrip(s))

\* the first whitespace-free run of s (s does not start with whitespace)
RECURSIVE Word(_)
Word(s) ==
    IF s = <<>> \/ IsSpace(Head(s)) THEN <<>> ELSE <<Head(s)>> \o Word(Tail(s))

\* str.split() with no separator: the maximal whitespace-free runs, in order
RECURSIVE Split(_)
Split(s) ==
    LET t == LStrip(s)
        w == Word(t)
    IN  IF t = <<>> THEN <<>>
        ELSE <<w>> \o Split(SubSeq(t, Len(w) + 1, Len(t)))

\* term occurs in s at position i
OccursAt(term, s, i) ==
    /\ i >= 1
    /\ i + Len(term) - 1 <= Len(s)
    /\ SubSeq(s, i, i + Len(term) - 1) = term

\* the scan of str.count counting every position, overlapping ones included
RECURSIVE CountOverlappingFrom(_, _, _)
CountOverlappingFrom(term, s, i) ==
    IF i + Len(term) - 1 > Len(s) THEN 0
    ELSE IF OccursAt(term, s, i) THEN 1 + CountOverlappingFrom(term, s, i + 1)
    ELSE CountOverlappingFrom(term, s, i + 1)

\* str.count(term) for a non-empty term: scan left to right, and after a
\* match resume behind it, so matches never overlap
RECURSIVE CountFrom(_, _, _)
CountFrom(term, s, i) ==
    IF i + Len(term) - 1 > Len(s) THEN 0
    ELSE IF OccursAt(term, s, i) THEN 1 + CountFrom(term, s, i + Len(term))
    ELSE CountFrom(term, s, i + 1)

StrCountOverlapping(s, term) == CountOverlappingFrom(term, s, 1)

StrCount(s, term) == CountFrom(term, s, 1)

RECURSIVE SumCounts(_, _)
SumCounts(terms, content_lower) ==
    IF terms = <<>> THEN 0
    ELSE StrCount(content_lower, Head(terms)) + SumCounts(Tail(terms), content_lower)

\* _lexical_score(query, content); float(score) is the same whole number
LexicalScore(query, content) ==
    LET query_lower == Strip(Lower(query))
    IN  IF query_lower = <<>> THEN 0
        ELSE SumCounts(Split(query_lower), Lower(content))

----------------------------------------------------------------------------
(* Documents, distances and scores *)

\* a collection is the tuple(documents) that keys the cache
DOCUMENTS == [i \in 1..MaxDocs |-> i]

Corpora == {DOCUMENTS, <<1>>}

DocsOf(k) == {k[i] : i \in 1..Len(k)}

RECURSIVE Pow2(_)
Pow2(e) == IF e = 0 THEN 1 ELSE 2 * Pow2(e - 1)

\* a distance <<n, e>> is the binary float n / 2^e: 0.0, 2^-60, 1.0 and 2.0
Distances == {<<0, 0>>, <<1, 60>>, <<1, 0>>, <<2, 0>>}

\* d1 < d2 (both n / 2^e; the only e above 0 is 60, with n = 1)
DistLess(d1, d2) ==
    IF d1[2] = d2[2] THEN d1[1] < d2[1]
    ELSE IF d1[2] > d2[2] THEN d2[1] > 0
    ELSE d1[1] = 0

\* the float 1 + d as a fraction <<num, den>>: a positive d below half an
\* ulp of 1.0 (2^-53) is absorbed and the sum is exactly 1.0
OnePlus(d) ==
    IF d[1] > 0 /\ d[2] - d[1] >= MantissaBits THEN <<1, 1>>
    ELSE <<Pow2(d[2]) + d[1], Pow2(d[2])>>

\* a wrong transform: the distance itself as the score
ScoreIsDistance(d) == <<d[1], Pow2(IF d[2] > 4 THEN 4 ELSE d[2])>>

\* 1.0 / (1 + distance), a fraction <<num, den>>
Score(d) == LET x == OnePlus(d) IN <<x[2], x[1]>>

ScoreLess(a, b) == a[1] * b[2] < b[1] * a[2]

ScoreEq(a, b) == a[1] * b[2] = b[1] * a[2]

None == "None"

\* no index instance
NoStore == <<>>

\* Document(page_content=str(cypher_query)), the document of the graph hit
KgDocument == 0

\* SearchResult(document, score, reason=None)
SearchResult(doc, score, reason) ==
    [document |-> doc, score |-> score, reason |-> reason]

\* the loop over faiss_hits: one SearchResult per (doc, distance)
VectorResults(hits) ==
    [i \in 1..Len(hits) |-> SearchResult(hits[i][1], Score(hits[i][2]), None)]

\* search_knowledgegraph: one fixed result, score 0.9, reason "test"
SearchKnowledgegraph(cypher_obj) ==
    <<SearchResult(KgDocument, <<9, 10>>, "test")>>

\* a sort that puts an element before the elements of equal key
RECURSIVE InsertBeforeEqual(_, _)
InsertBeforeEqual(sorted, r) ==
    IF sorted = <<>> THEN <<r>>
    ELSE IF ScoreLess(r.score, Head(sorted).score)
         THEN <<Head(sorted)>> \o InsertBeforeEqual(Tail(sorted), r)
         ELSE <<r>> \o sorted

\* r goes behind every element whose score is >= its own
RECURSIVE InsertDesc(_, _)
InsertDesc(sorted, r) ==
    IF sorted = <<>> THEN <<r>>
    ELSE IF ScoreLess(Head(sorted).score, r.score) THEN <<r>> \o sorted
    ELSE <<Head(sorted)>> \o InsertDesc(Tail(sorted), r)

RECURSIVE SortFrom(_, _)
SortFrom(sorted, rest) ==
    IF rest = <<>> THEN sorted
    ELSE SortFrom(InsertDesc(sorted, Head(rest)), Tail(rest))

\* results.sort(key=lambda r: r.score, reverse=True): stable, descending
SortDesc(results) == SortFrom(<<>>, results)

\* the hit lists similarity_search_with_score(query, k=len(documents)) may
\* return: at most k (document, distance) pairs over distinct documents
AllHits(k) ==
    UNION {{h \in [1..n -> DocsOf(k) \X Distances] :
                \A i, j \in 1..n : i # j => h[i][1] # h[j][1]} :
           n \in 0..Len(k)}

\* every document of the collection, in order, at distance 1.0
IndexHits(k) == {[i \in 1..Len(k) |-> <<k[i], <<1, 0>>>>]}

----------------------------------------------------------------------------
(* load_FAISS behind functools.lru_cache *)

Count(k) == IF k \in DOMAIN builds THEN builds[k] ELSE 0

Cached(c, k) == \E i \in 1..Len(c) : c[i].key = k

CacheIndex(c, k) == CHOOSE i \in 1..Len(c) : c[i].key = k

RemoveAt(c, i) == SubSeq(c, 1, i - 1) \o SubSeq(c, i + 1, Len(c))

\* a hit moves the entry to the most recently used end
LruTouch(c, k) == RemoveAt(c, CacheIndex(c, k)) \o <<c[CacheIndex(c, k)]>>

\* a new entry; a full cache first drops its least recently used entry
LruPut(c, e) ==
    IF Len(c) >= LruMaxSize THEN Append(Tail(c), e) ELSE Append(c, e)

\* a load_FAISS whose lookup never hits: every call runs the body
LoadFAISSAlwaysBuilds(c, k, buildOk) ==
    IF buildOk
    THEN [cache |-> LruPut(c, [key |-> k, store |-> <<k, Count(k) + 1>>]),
          store |-> <<k, Count(k) + 1>>, built |-> TRUE, raised |-> FALSE]
    ELSE [cache |-> c, store |-> NoStore, built |-> TRUE, raised |-> TRUE]

\* load_FAISS(tuple(documents)): the cached instance on a hit; on a miss the
\* body runs (OpenAIEmbeddings(), FAISS.from_documents), and its result is
\* cached unless it raised.  An instance is <<key, number of the build>>.
LoadFAISS(c, k, buildOk) ==
    IF Cached(c, k)
    THEN [cache |-> LruTouch(c, k), store |-> c[CacheIndex(c, k)].store,
          built |-> FALSE, raised |-> FALSE]
    ELSE IF buildOk
    THEN [cache |-> LruPut(c, [key |-> k, store |-> <<k, Count(k) + 1>>]),
          store |-> <<k, Count(k) + 1>>, built |-> TRUE, raised |-> FALSE]
    ELSE [cache |-> c, store |-> NoStore, built |-> TRUE, raised |-> TRUE]

----------------------------------------------------------------------------
(* search_documents *)

NoFrame ==
    [query |-> <<>>, key |-> <<>>, peers |-> {}, built |-> FALSE, store |-> NoStore,
     searched |-> FALSE, translated |-> FALSE, kg |-> FALSE, hits |-> <<>>,
     results |-> <<>>, fail |-> "none", trans |-> "none"]

InFlight(t) == pc[t] \in {"ready", "awaiting"}

\* a test that lets the empty query through
NeverEmptyQuery(q) == FALSE

\* `if not query`
IsEmptyQuery(q) == q = <<>>

\* an except clause around the retrieval that returns an empty list
SwallowRetrievalError(f, kind) ==
    [pc |-> "done", frame |-> [f EXCEPT !.fail = kind, !.results = <<>>]]

\* load_FAISS and similarity_search_with_score are called outside any try:
\* their exception leaves search_documents
OnRetrievalError(f, kind) ==
    [pc |-> "raised", frame |-> [f EXCEPT !.fail = kind]]

ExtendReplace(results, more) == more

\* results.extend(more)
Extend(results, more) == results \o more

\* the event loop schedules a call search_documents(q, k); peers are the
\* calls for the same collection that are in flight at the same time
Submit(t, q, k) ==
    /\ pc[t] = "idle"
    /\ LET same == {u \in DOMAIN pc : u # t /\ InFlight(u) /\ frame[u].key = k}
       IN  frame' = [u \in DOMAIN pc |->
                        IF u = t THEN [NoFrame EXCEPT !.query = q, !.key = k, !.peers = same]
                        ELSE IF u \in same THEN [frame[u] EXCEPT !.peers = @ \cup {t}]
                        ELSE frame[u]]
    /\ pc' = [pc EXCEPT ![t] = "ready"]
    /\ UNCHANGED <<cache, builds, scorer, router>>

\* from the start of the coroutine to `await llm.apredict(prompt)`.
\* buildOk, searchOk, search and setupOk are what the collaborators do:
\* whether the index build succeeds, whether the similarity search succeeds
\* and its hit list, and whether OpenAI(), the parser and the prompt can be
\* set up.
Run(t, buildOk, searchOk, search, setupOk) ==
    /\ pc[t] = "ready"
    /\ LET f == frame[t]
           loaded == LoadFAISS(cache, f.key, buildOk)
           f1 == [f EXCEPT !.built = loaded.built, !.store = loaded.store]
           f2 == [f1 EXCEPT !.searched = TRUE]
           f3 == [f2 EXCEPT !.hits = search, !.results = VectorResults(search),
                            !.translated = TRUE]
           failedBuild == OnRetrievalError(f1, "build")
           failedSearch == OnRetrievalError(f2, "search")
       IN  IF IsEmptyQuery(f.query)
           THEN /\ pc' = [pc EXCEPT ![t] = "done"]
                /\ frame' = [frame EXCEPT ![t].results = <<>>]
                /\ UNCHANGED <<cache, builds>>
           ELSE /\ loaded.built => Count(f.key) < MaxBuilds
                /\ cache' = loaded.cache
                /\ builds' = IF loaded.built
                             THEN [k \in DOMAIN builds \cup {f.key} |->
                                      IF k = f.key THEN Count(k) + 1 ELSE builds[k]]
                             ELSE builds
                /\ IF loaded.raised
                   THEN /\ pc' = [pc EXCEPT ![t] = failedBuild.pc]
                        /\ frame' = [frame EXCEPT ![t] = failedBuild.frame]
                   ELSE IF ~searchOk
                   THEN /\ pc' = [pc EXCEPT ![t] = failedSearch.pc]
                        /\ frame' = [frame EXCEPT ![t] = failedSearch.frame]
                   ELSE IF ~setupOk
                   \* text_to_cypher: OpenAI(), PydanticOutputParser and the
                   \* prompt are built before the try block
                   THEN /\ pc' = [pc EXCEPT ![t] = "raised"]
                        /\ frame' = [frame EXCEPT ![t] = [f3 EXCEPT !.trans = "config"]]
                   ELSE /\ pc' = [pc EXCEPT ![t] = "awaiting"]
                        /\ frame' = [frame EXCEPT ![t] = f3]
    /\ UNCHANGED <<scorer, router>>

\* from the await to the return.  outcome is what the model call did: "ok"
\* (parsable output), "network" (apredict raised) or "parse" (parser.parse
\* raised); both exceptions are caught and text_to_cypher returns None.
Resume(t, outcome) ==
    /\ pc[t] = "awaiting"
    /\ LET f == frame[t]
           cypher_obj == IF outcome = "ok" THEN "cypher" ELSE None
           results == IF cypher_obj # None
                      THEN Extend(f.results, SearchKnowledgegraph(cypher_obj))
                      ELSE f.results
       IN  frame' = [frame EXCEPT ![t] = [f EXCEPT !.trans = outcome,
                                                   !.kg = (cypher_obj # None),
                                                   !.results = SortDesc(results)]]
    /\ pc' = [pc EXCEPT ![t] = "done"]
    /\ UNCHANGED <<cache, builds, scorer, router>>

\* the caller takes the result (or the exception); the task is free again
Reap(t) ==
    /\ pc[t] \in {"done", "raised"}
    /\ pc' = [pc EXCEPT ![t] = "idle"]
    /\ frame' = [u \in DOMAIN pc |->
                    IF u = t THEN NoFrame ELSE [frame[u] EXCEPT !.peers = @ \ {t}]]
    /\ UNCHANGED <<cache, builds, scorer, router>>

Queries == {<<>>, <<"a">>}

ScorerIdle == [pc |-> "idle", query |-> <<>>, content |-> <<>>, score |-> 0]

RouterIdle ==
    [history |-> <<>>, status |-> "idle", query |-> <<>>, top_k |-> TopKDefault,
     response |-> <<>>]

SearchInit ==
    /\ pc = [t \in 1..NumTasks |-> "idle"]
    /\ frame = [t \in 1..NumTasks |-> NoFrame]
    /\ cache = <<>>
    /\ builds = [k \in {} |-> 0]

Init ==
    /\ SearchInit
    /\ scorer = ScorerIdle
    /\ router = RouterIdle

\* one call at a time, every hit list
Next ==
    \/ \E q \in Queries, k \in Corpora : Submit(1, q, k)
    \/ /\ pc[1] = "ready"
       /\ \E search \in AllHits(frame[1].key) :
              \E buildOk \in BOOLEAN, searchOk \in BOOLEAN, setupOk \in BOOLEAN :
                  Run(1, buildOk, searchOk, search, setupOk)
    \/ \E outcome \in {"ok", "network", "parse"} : Resume(1, outcome)
    \/ Reap(1)

Spec == Init /\ [][Next]_vars

\* several calls with a non-empty query in flight, the index returning
\* every document
NextConcurrent ==
    \E t \in 1..NumTasks :
        \/ \E k \in Corpora : Submit(t, <<"a">>, k)
        \/ /\ pc[t] = "ready"
           /\ \E search \in IndexHits(frame[t].key) :
                  \E buildOk \in BOOLEAN, searchOk \in BOOLEAN, setupOk \in BOOLEAN :
                      Run(t, buildOk, searchOk, search, setupOk)
        \/ \E outcome \in {"ok", "network", "parse"} : Resume(t, outcome)
        \/ Reap(t)

SpecConcurrent == Init /\ [][NextConcurrent]_vars

----------------------------------------------------------------------------
(* The cache under many collections: calls one after the other, for         *)
(* DOCUMENTS or for a collection not searched before, every collaborator   *)
(* succeeding except the translation.                                      *)

Others == Cardinality(DOMAIN builds \ {DOCUMENTS})

FreshCollection == <<MaxDocs + Others + 1>>

NextCache ==
    \/ Submit(1, <<"a">>, DOCUMENTS)
    \/ /\ Others < NumOthers
       /\ Submit(1, <<"a">>, FreshCollection)
    \/ /\ pc[1] = "ready"
       /\ \E search \in IndexHits(frame[1].key) : Run(1, TRUE, TRUE, search, TRUE)
    \/ Resume(1, "parse")
    \/ Reap(1)

SpecCache == Init /\ [][NextCache]_vars

----------------------------------------------------------------------------
(* _lexical_score on every query and content within the bounds *)

InitScore ==
    /\ SearchInit
    /\ router = RouterIdle
    /\ scorer \in {[pc |-> "called", query |-> q, content |-> c, score |-> 0] :
                      q \in Strs(MaxQueryLen), c \in Strs(MaxContentLen)}

ScoreCall ==
    /\ scorer.pc = "called"
    /\ scorer' = [scorer EXCEPT !.pc = "returned",
                                !.score = LexicalScore(scorer.query, scorer.content)]
    /\ UNCHANGED <<pc, frame, cache, builds, router>>

NextScore == ScoreCall

SpecScore == InitScore /\ [][NextScore]_vars

----------------------------------------------------------------------------
(* POST /search *)

\* `async def search_documents(query, documents)`: its parameters, none
\* with a default
SearchDocumentsParams == <<"query", "documents">>

\* Python's argument binding: npos positional arguments and the keyword
\* arguments kwargs bind to params iff every keyword names a parameter not
\* filled positionally and every parameter is filled
CallBinds(params, npos, kwargs) ==
    /\ npos <= Len(params)
    /\ kwargs = {params[i] : i \in (npos + 1)..Len(params)}

\* request bodies that pass SearchRequest's validation (query of length
\* >= 1, 1 <= top_k <= 50)
RouterQueries == {<<" ">>, <<"a">>, <<"b">>, <<" ", "a">>, <<"A", " ">>}

RouterTopKs == {TopKMin, TopKDefault, TopKMax}

\* the handler `search(request)`.  SearchEntry's timestamp is left out of
\* the history entry.  The call search_documents(query, DOCUMENTS,
\* top_k=request.top_k) passes two positional arguments and the keyword
\* top_k; when it cannot be bound, TypeError leaves the handler.
Handler(raw, top_k) ==
    /\ Len(router.history) < MaxHistory
    /\ LET query == Strip(raw)
       IN  IF query = <<>>
           THEN /\ router' = [router EXCEPT !.status = "HTTP400", !.query = query,
                                            !.top_k = top_k, !.response = <<>>]
                /\ UNCHANGED <<pc, frame>>
           ELSE IF ~CallBinds(SearchDocumentsParams, 2, {"top_k"})
           THEN /\ router' = [history |-> Append(router.history, query),
                              status |-> "TypeError", query |-> query, top_k |-> top_k,
                              response |-> <<>>]
                /\ UNCHANGED <<pc, frame>>
           ELSE /\ router' = [history |-> Append(router.history, query),
                              status |-> "awaiting", query |-> query, top_k |-> top_k,
                              response |-> <<>>]
                /\ pc[1] = "idle"
                /\ pc' = [pc EXCEPT ![1] = "ready"]
                /\ frame' = [frame EXCEPT ![1] = [NoFrame EXCEPT !.query = query,
                                                                 !.key = DOCUMENTS]]
    /\ UNCHANGED <<cache, builds, scorer>>

NextRouter == \E raw \in RouterQueries, top_k \in RouterTopKs : Handler(raw, top_k)

SpecRouter == Init /\ [][NextRouter]_vars

----------------------------------------------------------------------------
(* Properties *)

\* the list search_documents sorts: the vector results, then the graph hit
PreSort(f) ==
    VectorResults(f.hits) \o (IF f.kg THEN SearchKnowledgegraph("cypher") ELSE <<>>)

Pos(x, seq) == CHOOSE i \in 1..Len(seq) : seq[i] = x

NonIncreasing(r) == \A i \in 1..(Len(r) - 1) : ~ScoreLess(r[i].score, r[i + 1].score)

\* C1: whenever the translation step fails (missing configuration at set-up,
\* a network error during the model call, unparsable output), the call does
\* not raise and returns exactly the vector results, sorted by score
\* descending.
C1_TranslationFailureDegrades ==
    \A t \in DOMAIN pc :
        frame[t].trans \in {"config", "network", "parse"} =>
            /\ pc[t] = "done"
            /\ frame[t].results = SortDesc(VectorResults(frame[t].hits))
            /\ NonIncreasing(frame[t].results)

\* C2: for every request whose query is non-empty after trimming, the
\* handler completes and returns at most top_k results.
C2_HandlerReturnsTopK ==
    (router.status # "idle" /\ Strip(router.query) # <<>>) =>
        /\ router.status \in {"awaiting", "returned"}
        /\ Len(router.response) <= router.top_k

\* C3: the build is invoked at most once per distinct document sequence,
\* every later call gets the identical instance, and no entry is evicted.
C3_BuildOncePerCollection ==
    \A k \in DOMAIN builds :
        /\ builds[k] <= 1
        /\ Cached(cache, k)
        /\ cache[CacheIndex(cache, k)].store = <<k, 1>>

C5_SortedStable ==
    \A t \in DOMAIN pc :
        pc[t] = "done" =>
            LET r == frame[t].results
                pre == PreSort(frame[t])
            IN  /\ NonIncreasing(r)
                /\ \A i, j \in 1..Len(r) :
                       (i < j /\ ScoreEq(r[i].score, r[j].score)) =>
                           Pos(r[i], pre) < Pos(r[j], pre)

\* C5 witness: a returned list with the graph hit in it and two vector
\* results of equal score.
C5_Witness ==
    \E t \in DOMAIN pc :
        /\ pc[t] = "done" /\ frame[t].kg
        /\ \E i, j \in 1..Len(frame[t].results) :
               /\ i < j
               /\ ScoreEq(frame[t].results[i].score, frame[t].results[j].score)
        /\ \E i \in 1..Len(frame[t].hits) : frame[t].hits[i][2] = <<2, 0>>

\* C6: for a non-empty query the returned list has as many results as there
\* are vector hits plus graph hits (none when the translation was absent),
\* and every one of them is in it.
C6_LengthIsSum ==
    \A t \in DOMAIN pc :
        (pc[t] = "done" /\ frame[t].query # <<>>) =>
            LET r == frame[t].results
                pre == PreSort(frame[t])
            IN  /\ frame[t].kg = (frame[t].trans = "ok")
                /\ Len(r) = Len(frame[t].hits) + (IF frame[t].trans = "ok" THEN 1 ELSE 0)
                /\ \A i \in 1..Len(pre) : \E j \in 1..Len(r) : r[j] = pre[i]

\* C6 witness: two vector hits and the graph hit returned.
C6_Witness ==
    \E t \in DOMAIN pc :
        /\ pc[t] = "done" /\ frame[t].trans = "ok"
        /\ Len(frame[t].hits) = 2 /\ Len(frame[t].results) = 3

\* C7: search_documents("", documents) returns the empty list at once: no
\* index is built or fetched, no similarity search runs, and neither the
\* translator nor the graph search is invoked.
C7_EmptyQueryNoEffect ==
    [][\A t \in DOMAIN pc :
          (pc[t] = "ready" /\ pc'[t] # "ready" /\ frame[t].query = <<>>) =>
              /\ pc'[t] = "done"
              /\ frame'[t].results = <<>>
              /\ cache' = cache /\ builds' = builds
              /\ ~frame'[t].built /\ frame'[t].store = NoStore
              /\ ~frame'[t].searched /\ ~frame'[t].translated /\ ~frame'[t].kg]_vars

\* C7 witness: a finished call with the empty query over DOCUMENTS.
C7_Witness ==
    \E t \in DOMAIN pc :
        /\ pc[t] = "done" /\ frame[t].query = <<>> /\ frame[t].key = DOCUMENTS
        /\ frame[t].results = <<>> /\ cache = <<>>

ResultOf(f, doc) == CHOOSE x \in {f.results[i] : i \in 1..Len(f.results)} : x.document = doc

PlaceOf(f, doc) == CHOOSE i \in 1..Len(f.results) : f.results[i].document = doc

\* the positions at which term occurs in s
Occurrences(term, s) == {i \in 1..Len(s) : OccursAt(term, s, i)}

\* the largest number of occurrences of term in s no two of which overlap
MaxDisjoint(term, s) ==
    LET ok == {P \in SUBSET Occurrences(term, s) :
                  \A i, j \in P : i < j => j - i >= Len(term)}
    IN  CHOOSE n \in 0..Len(s) :
            /\ \E P \in ok : Cardinality(P) = n
            /\ \A P \in ok : Cardinality(P) <= n

RECURSIVE SumOverlapping(_, _)
SumOverlapping(terms, s) ==
    IF terms = <<>> THEN 0
    ELSE Cardinality(Occurrences(Head(terms), s)) + SumOverlapping(Tail(terms), s)

RECURSIVE SumDisjoint(_, _)
SumDisjoint(terms, s) ==
    IF terms = <<>> THEN 0
    ELSE MaxDisjoint(Head(terms), s) + SumDisjoint(Tail(terms), s)

\* C9 as stated: the score is the sum, over the whitespace-separated
\* lower-cased query terms, of the number of possibly overlapping
\* occurrences of the term in the lower-cased content, and 0 for a query
\* that is empty after trimming.
C9_OverlappingCount ==
    scorer.pc = "returned" =>
        scorer.score =
            IF Strip(Lower(scorer.query)) = <<>> THEN 0
            ELSE SumOverlapping(Split(Strip(Lower(scorer.query))), Lower(scorer.content))

\* C9 as amended: the occurrences counted do not overlap: per term, the
\* largest number of pairwise non-overlapping occurrences in the lower-cased
\* content (score("aa", "aaaa") is 2), and 0 for a query that is empty after
\* trimming.
C9_NonOverlappingCount ==
    scorer.pc = "returned" =>
        scorer.score =
            IF Strip(Lower(scorer.query)) = <<>> THEN 0
            ELSE SumDisjoint(Split(Strip(Lower(scorer.query))), Lower(scorer.content))

\* C9 witness: score("aa", "aaaa") has returned 2.
C9_Witness ==
    /\ scorer.pc = "returned"
    /\ scorer.query = <<"a", "a">> /\ scorer.content = <<"a", "a", "a", "a">>
    /\ scorer.score = 2

====
